---- MODULE Spec2Model ----
(***************************************************************************)
(* Model of the two queues of the repository:                              *)
(*   "cq"  ConcurrentQueue<T>           (src/concurrent_queue.hpp)         *)
(*   "py"  boost_queue.Queue, the binding (src/boost_queue.cpp)            *)
(* A behaviour runs one of them (impl), built with a maxsize chosen in     *)
(* Init, and used by NumThreads threads.  A thread is at one position (pc) *)
(* of one call (call).  Condition variables are the sets of threads        *)
(* blocked in them; the mutex and the GIL are the sets of their owners.    *)
(* Time is kept relative: abs_timeout of a call is <<>> while no deadline   *)
(* is computed, and then <<d>>, d the milliseconds from now to the         *)
(* deadline; Tick shortens it.                                             *)
(***************************************************************************)
EXTENDS Integers, Sequences, FiniteSets, TLC

\* ---- bounds of the model
NumThreads == 2
MaxCap == 2
MaxItems == 3
MaxBatch == 2
MaxTimeout == 2
MaxThreads == 3

\* ---- program constants
\* the float timeout of the binding is counted in half milliseconds, so that
\* the truncation of static_cast<uint64_t>(timeout*1000) can be seen
UnitsPerMilli == 2
\* size_t arithmetic wraps; TLC's integers end at 2^31-1, which stands for the
\* largest size_t
SIZE_MAX == 2147483647

\* the threads that exist, and those of them that call the queue in Spec
AllThreads == 1..MaxThreads

Threads == 1..NumThreads

VARIABLES
    impl,                \* "cq" or "py"
    maxsize,             \* size_t maxsize
    queue,               \* std::deque
    unfinished_tasks,    \* boost::uint64_t unfinished_tasks
    mutex,               \* owners of boost::mutex
    gil,                 \* owners of the interpreter lock (binding only)
    empty_cond,          \* threads blocked in empty_cond
    full_cond,           \* threads blocked in full_cond
    all_tasks_done_cond, \* threads blocked in all_tasks_done_cond
    pc,                  \* position of each thread
    call,                \* the call each thread is in
    inserted,            \* history: every element pushed, in push order
    removed,             \* history: every element popped, in pop order
    completed            \* history: number of task_done calls that decremented

vars == <<impl, maxsize, queue, unfinished_tasks, mutex, gil, empty_cond,
          full_cond, all_tasks_done_cond, pc, call, inserted, removed,
          completed>>

NoCall == [op |-> "none", block |-> FALSE, timeout |-> 0, abs_timeout |-> <<>>,
           cut |-> 0, nb |-> 0, moved |-> 0, timedout |-> FALSE,
           waited |-> FALSE, res |-> "none", val |-> 0, got |-> <<>>]

\* the record of a call keeps the timeout only where the code reads it: in a
\* call that may block
NewCall(op, block, timeout, nb) ==
    [NoCall EXCEPT !.op = op, !.block = block, !.nb = nb,
                   !.timeout = IF block THEN timeout ELSE 0]

\* ---- deque, counter and condition-variable primitives

\* faulty variant of push_back: the element goes to the front
push_front(q, x) == <<x>> \o q

push_back(q, x) == Append(q, x)

front(q) == Head(q)

pop_front(q) == Tail(q)

RECURSIVE pop_front_n(_, _)
pop_front_n(q, n) == IF n = 0 \/ q = <<>> THEN q ELSE pop_front_n(pop_front(q), n - 1)

RECURSIVE front_n(_, _)
front_n(q, n) == IF n = 0 \/ q = <<>> THEN <<>> ELSE <<front(q)>> \o front_n(pop_front(q), n - 1)

\* the sets of threads a notify_one on a condition with waiters w may wake
notify_one(w) == IF w = {} THEN {{}} ELSE {{x} : x \in w}

\* faulty variant of notify_all: the notification is forgotten
notify_none(w) == {}

\* the set of threads a notify_all wakes
notify_all(w) == w

\* unsigned subtraction of size_t
size_t_sub(a, b) == IF a >= b THEN a - b ELSE (SIZE_MAX - (b - a)) + 1

\* the element the next push carries: elements are numbered in push order
NextItem == Len(inserted) + 1

\* which condition variable a waiting call blocks in
CondOf(op) ==
    IF op \in {"put", "put_many"} THEN "full"
    ELSE IF op \in {"get", "pop", "get_many"} THEN "empty"
    ELSE "all_tasks_done"

\* pushes a call in flight may still make (the bound MaxItems is kept by
\* admitting a producer only when its pushes fit)
Reserve(t) ==
    IF pc[t] \in {"idle", "ret", "notify"} THEN 0
    ELSE IF call[t].op = "put" THEN 1
    ELSE IF call[t].op = "put_many" /\ call[t].nb > call[t].moved
         THEN call[t].nb - call[t].moved
    ELSE 0

RECURSIVE ReservedBy(_)
ReservedBy(S) ==
    IF S = {} THEN 0
    ELSE LET x == CHOOSE y \in S : TRUE IN Reserve(x) + ReservedBy(S \ {x})

CanPush(t, k) == Len(inserted) + ReservedBy(AllThreads \ {t}) + k <= MaxItems

\* ---- one step of thread t: its new position p and call c, the new queue q
\* and counter u, the threads woke out of their condition, the owners m of
\* the mutex and g of the GIL, and the histories
Apply(t, p, c, q, u, woke, m, g, ins, rem, comp) ==
    /\ pc' = [x \in AllThreads |->
                IF x = t THEN p ELSE IF x \in woke THEN "relock" ELSE pc[x]]
    /\ call' = [call EXCEPT ![t] = c]
    /\ queue' = q
    /\ unfinished_tasks' = u
    /\ empty_cond' = (empty_cond \ woke) \cup
            (IF p = "cwait" /\ CondOf(c.op) = "empty" THEN {t} ELSE {})
    /\ full_cond' = (full_cond \ woke) \cup
            (IF p = "cwait" /\ CondOf(c.op) = "full" THEN {t} ELSE {})
    /\ all_tasks_done_cond' = (all_tasks_done_cond \ woke) \cup
            (IF p = "cwait" /\ CondOf(c.op) = "all_tasks_done" THEN {t} ELSE {})
    /\ mutex' = m
    /\ gil' = g
    /\ inserted' = ins
    /\ removed' = rem
    /\ completed' = comp
    /\ UNCHANGED <<impl, maxsize>>

\* the call returns r
Returned(c, r) ==
    [c EXCEPT !.res = r, !.abs_timeout = <<>>, !.timeout = 0, !.cut = 0,
              !.timedout = FALSE]

\* faulty variant of Waiting: a timed wait that is entered again gets a
\* deadline of its own, one millisecond ahead
Waiting_fresh(c, deadline, cut) ==
    [c EXCEPT !.waited = TRUE, !.timedout = FALSE, !.timeout = 0,
              !.abs_timeout = IF c.waited
                              THEN IF c.abs_timeout = <<>> THEN <<>> ELSE <<1>>
                              ELSE IF c.timeout > 0 THEN <<deadline>>
                              ELSE <<>>,
              !.cut = IF c.waited THEN c.cut
                      ELSE IF c.timeout > 0 THEN cut
                      ELSE 0]

\* the call enters cond.wait / cond.timed_wait; with timeout > 0 the deadline
\* is computed before the first wait, and the timeout is not read again.
\* cut is what the deadline computed falls short of the timeout asked for,
\* in the unit of the timeout
Waiting(c, deadline, cut) ==
    [c EXCEPT !.waited = TRUE, !.timedout = FALSE, !.timeout = 0,
              !.abs_timeout = IF c.waited THEN c.abs_timeout
                              ELSE IF c.timeout > 0 THEN <<deadline>>
                              ELSE <<>>,
              !.cut = IF c.waited THEN c.cut
                      ELSE IF c.timeout > 0 THEN cut
                      ELSE 0]

\* ---- ConcurrentQueue<T>

ConcurrentQueue(arg) == IF arg < 0 THEN 0 ELSE arg

\* put, from the first test to the push: "go", "fail" (throw QueueFull) or "wait"
ConcurrentQueue_put_wait(c) ==
    IF ~c.waited
    THEN IF Len(queue) < maxsize \/ maxsize = 0 THEN "go"
         ELSE IF ~c.block THEN "fail"
         ELSE IF Len(queue) = maxsize THEN "wait" ELSE "go"
    ELSE IF c.abs_timeout # <<>> /\ c.timedout THEN "fail"
    ELSE IF Len(queue) = maxsize THEN "wait" ELSE "go"

ConcurrentQueue_pop_wait(c) ==
    IF ~c.waited
    THEN IF queue # <<>> THEN "go"
         ELSE IF ~c.block THEN "fail"
         ELSE "wait"
    ELSE IF c.abs_timeout # <<>> /\ c.timedout THEN "fail"
    ELSE IF queue = <<>> THEN "wait" ELSE "go"

\* faulty variant of ConcurrentQueue_task_done_test: no test for zero
ConcurrentQueue_task_done_unchecked(u) == "dec"

\* task_done: "throw" or "dec"
ConcurrentQueue_task_done_test(u) == IF u = 0 THEN "throw" ELSE "dec"

\* join: the loop test
ConcurrentQueue_join_test(c, u) == IF u # 0 THEN "wait" ELSE "go"

\* the bodies of the calls of t, which holds the mutex (scoped_lock), up to
\* the return, the unlock or the next wait
ConcurrentQueue_put_locked(t, c) ==
    LET d == ConcurrentQueue_put_wait(c) IN
    CASE d = "go" ->
           Apply(t, "notify", [c EXCEPT !.moved = 1],
                 push_back(queue, NextItem), unfinished_tasks + 1, {}, {}, gil,
                 Append(inserted, NextItem), removed, completed)
      [] d = "fail" ->
           Apply(t, "ret", Returned(c, "Full"), queue, unfinished_tasks, {},
                 {}, gil, inserted, removed, completed)
      [] d = "wait" ->
           Apply(t, "cwait", Waiting(c, c.timeout, 0), queue, unfinished_tasks,
                 {}, {}, gil, inserted, removed, completed)

ConcurrentQueue_pop_locked(t, c) ==
    LET d == ConcurrentQueue_pop_wait(c) IN
    CASE d = "go" ->
           Apply(t, "notify", [c EXCEPT !.moved = 1, !.got = front_n(queue, 1)],
                 pop_front_n(queue, 1), unfinished_tasks, {}, {}, gil,
                 inserted, removed \o front_n(queue, 1), completed)
      [] d = "fail" ->
           Apply(t, "ret", Returned(c, "Empty"), queue, unfinished_tasks, {},
                 {}, gil, inserted, removed, completed)
      [] d = "wait" ->
           Apply(t, "cwait", Waiting(c, c.timeout, 0), queue, unfinished_tasks,
                 {}, {}, gil, inserted, removed, completed)

ConcurrentQueue_task_done_locked(t, c) ==
    IF ConcurrentQueue_task_done_test(unfinished_tasks) = "throw"
    THEN Apply(t, "ret", Returned(c, "NoMoreTasks"), queue, unfinished_tasks,
               {}, {}, gil, inserted, removed, completed)
    ELSE Apply(t, "ret", Returned(c, "ok"), queue, unfinished_tasks - 1,
               IF unfinished_tasks - 1 = 0
               THEN notify_all(all_tasks_done_cond) ELSE {},
               {}, gil, inserted, removed, completed + 1)

ConcurrentQueue_join_locked(t, c) ==
    IF ConcurrentQueue_join_test(c, unfinished_tasks) = "wait"
    THEN Apply(t, "cwait", Waiting(c, 0, 0), queue, unfinished_tasks, {}, {}, gil,
               inserted, removed, completed)
    ELSE Apply(t, "ret", Returned(c, "ok"), queue, unfinished_tasks, {}, {},
               gil, inserted, removed, completed)

ConcurrentQueue_size_locked(t, c) ==
    Apply(t, "ret", [Returned(c, "ok") EXCEPT !.val = Len(queue)], queue,
          unfinished_tasks, {}, {}, gil, inserted, removed, completed)

ConcurrentQueue_body(t, c) ==
    CASE c.op = "put" -> ConcurrentQueue_put_locked(t, c)
      [] c.op = "pop" -> ConcurrentQueue_pop_locked(t, c)
      [] c.op = "task_done" -> ConcurrentQueue_task_done_locked(t, c)
      [] c.op = "join" -> ConcurrentQueue_join_locked(t, c)
      [] c.op = "size" -> ConcurrentQueue_size_locked(t, c)

\* a thread calls a method: it is now at the constructor of the scoped_lock
ConcurrentQueue_enter(t, c) ==
    /\ impl = "cq"
    /\ pc[t] = "idle"
    /\ pc' = [pc EXCEPT ![t] = "wait_lock"]
    /\ call' = [call EXCEPT ![t] = c]
    /\ UNCHANGED <<impl, maxsize, queue, unfinished_tasks, mutex, gil,
                   empty_cond, full_cond, all_tasks_done_cond, inserted,
                   removed, completed>>

ConcurrentQueue_put(t) ==
    /\ CanPush(t, 1)
    /\ \E block \in BOOLEAN, timeout \in 0..MaxTimeout :
          ConcurrentQueue_enter(t, NewCall("put", block, timeout, 1))

ConcurrentQueue_pop(t) ==
    \E block \in BOOLEAN, timeout \in 0..MaxTimeout :
       ConcurrentQueue_enter(t, NewCall("pop", block, timeout, 1))

ConcurrentQueue_task_done(t) ==
    ConcurrentQueue_enter(t, NewCall("task_done", TRUE, 0, 0))

ConcurrentQueue_join(t) ==
    ConcurrentQueue_enter(t, NewCall("join", TRUE, 0, 0))

ConcurrentQueue_size(t) ==
    ConcurrentQueue_enter(t, NewCall("size", TRUE, 0, 0))

\* the scoped_lock is acquired, at the call's start or on the way out of a
\* condition wait, and the body runs
ConcurrentQueue_lock(t) ==
    /\ impl = "cq"
    /\ pc[t] \in {"wait_lock", "relock"}
    /\ mutex = {}
    /\ ConcurrentQueue_body(t, call[t])

\* put and pop notify after lock.unlock()
ConcurrentQueue_notify(t) ==
    /\ impl = "cq"
    /\ pc[t] = "notify"
    /\ \E woke \in notify_one(IF call[t].op = "put" THEN empty_cond ELSE full_cond) :
          Apply(t, "ret", Returned(call[t], "ok"), queue, unfinished_tasks,
                woke, mutex, gil, inserted, removed, completed)

\* ---- boost_queue.Queue, the binding

Queue_init(arg) == IF arg < 0 THEN 0 ELSE arg

\* an optional argument is <<>> when absent (NULL or None), else <<value>>
PyBlock == {<<>>, <<TRUE>>, <<FALSE>>}

PyTimeout == {<<>>} \cup {<<v>> : v \in -1..MaxTimeout}

\* faulty variant of _parse_block_and_timeout: a timeout of 0 leaves block
\* as it is
_parse_block_and_timeout_keep(py_block, py_timeout, block, timeout) ==
    LET b == IF py_block # <<>> /\ ~py_block[1] THEN FALSE ELSE block IN
    IF py_timeout # <<>>
    THEN IF py_timeout[1] < 0
         THEN [status |-> -1, block |-> b, timeout |-> py_timeout[1]]
         ELSE [status |-> 1, block |-> b, timeout |-> py_timeout[1]]
    ELSE [status |-> 1, block |-> b, timeout |-> timeout]

_parse_block_and_timeout(py_block, py_timeout, block, timeout) ==
    LET b == IF py_block # <<>> /\ ~py_block[1] THEN FALSE ELSE block IN
    IF py_timeout # <<>>
    THEN IF py_timeout[1] < 0
         THEN [status |-> -1, block |-> b, timeout |-> py_timeout[1]]
         ELSE IF py_timeout[1] = 0
         THEN [status |-> 1, block |-> FALSE, timeout |-> py_timeout[1]]
         ELSE [status |-> 1, block |-> b, timeout |-> py_timeout[1]]
    ELSE [status |-> 1, block |-> b, timeout |-> timeout]

timeout_millis(timeout) == timeout \div UnitsPerMilli

\* faulty variant of bigger_than_maxsize: no batch is refused
bigger_than_maxsize_never(items_len) == FALSE

\* the test of Queue_put_many and Queue_get_many for a batch that can never
\* fit: maxsize > 0 and static_cast<size_t>(items_len) > maxsize
bigger_than_maxsize(items_len) == maxsize > 0 /\ items_len > maxsize

\* faulty variant of _wait_for_free_slots: no test for the unbounded queue
_wait_for_free_slots_bounded(c, nb_of_items) ==
    IF ~c.waited
    THEN IF size_t_sub(maxsize, Len(queue)) >= nb_of_items THEN "go"
         ELSE IF ~c.block THEN "fail"
         ELSE "wait"
    ELSE IF c.abs_timeout # <<>> /\ c.timedout THEN "fail"
    ELSE IF ~(size_t_sub(maxsize, Len(queue)) >= nb_of_items) THEN "wait"
    ELSE "go"

\* "go", "fail" (Full) or "wait"
_wait_for_free_slots(c, nb_of_items) ==
    IF ~c.waited
    THEN IF maxsize = 0 THEN "go"
         ELSE IF size_t_sub(maxsize, Len(queue)) >= nb_of_items THEN "go"
         ELSE IF ~c.block THEN "fail"
         ELSE "wait"
    ELSE IF c.abs_timeout # <<>> /\ c.timedout THEN "fail"
    ELSE IF ~(size_t_sub(maxsize, Len(queue)) >= nb_of_items) THEN "wait"
    ELSE "go"

\* faulty variant of _wait_for_items: it waits for one element only
_wait_for_one_item(c, items_len) ==
    IF ~c.waited
    THEN IF Len(queue) >= 1 THEN "go"
         ELSE IF ~c.block THEN "fail"
         ELSE "wait"
    ELSE IF c.abs_timeout # <<>> /\ c.timedout THEN "fail"
    ELSE IF Len(queue) < 1 THEN "wait"
    ELSE "go"

\* "go", "fail" (Empty) or "wait"
_wait_for_items(c, items_len) ==
    IF ~c.waited
    THEN IF Len(queue) >= items_len THEN "go"
         ELSE IF ~c.block THEN "fail"
         ELSE "wait"
    ELSE IF c.abs_timeout # <<>> /\ c.timedout THEN "fail"
    ELSE IF Len(queue) < items_len THEN "wait"
    ELSE "go"

\* faulty variant of Queue_task_done_test: no test for zero
Queue_task_done_unchecked(u) == "dec"

Queue_task_done_test(u) == IF u = 0 THEN "error" ELSE "dec"

\* faulty variant of Queue_join_test: an if in place of the while
Queue_join_test_once(c, u) == IF u # 0 /\ ~c.waited THEN "wait" ELSE "go"

Queue_join_test(c, u) == IF u # 0 THEN "wait" ELSE "go"

\* the call returns with the scoped_lock destroyed and the GIL held
PyReturn(t, c, r, q, u, woke, ins, rem, comp) ==
    Apply(t, "ret", Returned(c, r), q, u, woke, {}, {t}, ins, rem, comp)

\* _blocked_wait_* / _timed_wait_*: AllowThreads releases the GIL, the wait
\* releases the mutex
PyWait(t, c) ==
    Apply(t, "cwait",
          Waiting(c, timeout_millis(c.timeout),
                  c.timeout - timeout_millis(c.timeout) * UnitsPerMilli), queue,
          unfinished_tasks, {}, {}, {}, inserted, removed, completed)

_internal_put(t, c) ==
    LET d == _wait_for_free_slots(c, 1) IN
    CASE d = "fail" ->
           PyReturn(t, c, "Full", queue, unfinished_tasks, {}, inserted,
                    removed, completed)
      [] d = "wait" -> PyWait(t, c)
      [] d = "go" ->
           \E woke \in notify_one(empty_cond) :
              PyReturn(t, [c EXCEPT !.moved = 1], "ok",
                       push_back(queue, NextItem), unfinished_tasks + 1, woke,
                       Append(inserted, NextItem), removed, completed)

\* faulty variant of _internal_get: the item taken counts as completed
_internal_get_done(t, c) ==
    LET d == _wait_for_items(c, 1) IN
    CASE d = "fail" ->
           PyReturn(t, c, "Empty", queue, unfinished_tasks, {}, inserted,
                    removed, completed)
      [] d = "wait" -> PyWait(t, c)
      [] d = "go" ->
           \E woke \in notify_one(full_cond) :
              PyReturn(t, [c EXCEPT !.moved = 1, !.got = front_n(queue, 1)],
                       "ok", pop_front_n(queue, 1), unfinished_tasks - 1, woke,
                       inserted, removed \o front_n(queue, 1), completed)

_internal_get(t, c) ==
    LET d == _wait_for_items(c, 1) IN
    CASE d = "fail" ->
           PyReturn(t, c, "Empty", queue, unfinished_tasks, {}, inserted,
                    removed, completed)
      [] d = "wait" -> PyWait(t, c)
      [] d = "go" ->
           \E woke \in notify_one(full_cond) :
              PyReturn(t, [c EXCEPT !.moved = 1, !.got = front_n(queue, 1)],
                       "ok", pop_front_n(queue, 1), unfinished_tasks, woke,
                       inserted, removed \o front_n(queue, 1), completed)

\* Queue_put_many from the wait to PyObject_GetIter
Queue_put_many_locked(t, c) ==
    LET d == _wait_for_free_slots(c, c.nb) IN
    CASE d = "fail" ->
           PyReturn(t, c, "Full", queue, unfinished_tasks, {}, inserted,
                    removed, completed)
      [] d = "wait" -> PyWait(t, c)
      [] d = "go" ->
           \/ Apply(t, "iter", c, queue, unfinished_tasks, {}, {t}, {t},
                    inserted, removed, completed)
           \/ PyReturn(t, c, "Error", queue, unfinished_tasks, {}, inserted,
                       removed, completed)

\* Queue_get_many from the wait to the return
Queue_get_many_locked(t, c) ==
    LET d == _wait_for_items(c, c.nb) IN
    CASE d = "fail" ->
           PyReturn(t, c, "Empty", queue, unfinished_tasks, {}, inserted,
                    removed, completed)
      [] d = "wait" -> PyWait(t, c)
      [] d = "go" ->
           \/ PyReturn(t, [c EXCEPT !.moved = Len(front_n(queue, c.nb)),
                                    !.got = front_n(queue, c.nb)],
                       "ok", pop_front_n(queue, c.nb), unfinished_tasks,
                       notify_all(full_cond), inserted,
                       removed \o front_n(queue, c.nb), completed)
           \/ PyReturn(t, c, "Error", queue, unfinished_tasks, {}, inserted,
                       removed, completed)

Queue_task_done_locked(t, c) ==
    IF Queue_task_done_test(unfinished_tasks) = "error"
    THEN PyReturn(t, c, "ValueError", queue, unfinished_tasks, {}, inserted,
                  removed, completed)
    ELSE PyReturn(t, c, "ok", queue, unfinished_tasks - 1,
                  IF unfinished_tasks - 1 = 0
                  THEN notify_all(all_tasks_done_cond) ELSE {},
                  inserted, removed, completed + 1)

Queue_join_locked(t, c) ==
    IF Queue_join_test(c, unfinished_tasks) = "wait"
    THEN PyWait(t, c)
    ELSE PyReturn(t, c, "ok", queue, unfinished_tasks, {}, inserted, removed,
                  completed)

\* the part of a call that runs with the mutex and the GIL held
Queue_locked(t, c) ==
    CASE c.op = "put" -> _internal_put(t, c)
      [] c.op = "get" -> _internal_get(t, c)
      [] c.op = "put_many" -> Queue_put_many_locked(t, c)
      [] c.op = "get_many" -> Queue_get_many_locked(t, c)
      [] c.op = "task_done" -> Queue_task_done_locked(t, c)
      [] c.op = "join" -> Queue_join_locked(t, c)

\* faulty variant of try_to_lock: the call goes on whoever owns the mutex
try_to_lock_unowned(t, c) == Queue_locked(t, c)

\* scoped_lock lock(mutex, try_to_lock): with the lock the call goes on, else
\* _wait_for_lock releases the GIL and blocks in lock.lock()
try_to_lock(t, c) ==
    IF mutex = {}
    THEN Queue_locked(t, c)
    ELSE Apply(t, "wait_lock", c, queue, unfinished_tasks, {}, mutex, {},
               inserted, removed, completed)

\* a return before the mutex is touched
PyEarly(t, c, r) ==
    Apply(t, "ret", Returned(c, r), queue, unfinished_tasks, {}, mutex, {t},
          inserted, removed, completed)

\* a thread runs Python code, and so calls a method, only with the GIL
PyCalls(t) == impl = "py" /\ pc[t] = "idle" /\ gil = {}

\* put(item, block, timeout) with the given optional arguments
Queue_put_args(t, py_block, py_timeout) ==
    /\ PyCalls(t)
    /\ CanPush(t, 1)
    /\ LET p == _parse_block_and_timeout(py_block, py_timeout, TRUE, 0) IN
       IF p.status = -1
       THEN PyEarly(t, NewCall("put", p.block, 0, 1), "ValueError")
       ELSE try_to_lock(t, NewCall("put", p.block, p.timeout, 1))

Queue_put(t) ==
    /\ PyCalls(t)
    /\ \E py_block \in PyBlock, py_timeout \in PyTimeout :
          Queue_put_args(t, py_block, py_timeout)

Queue_put_nowait(t) ==
    /\ PyCalls(t)
    /\ CanPush(t, 1)
    /\ try_to_lock(t, NewCall("put", FALSE, 0, 1))

\* get(block, timeout) with the given optional arguments
Queue_get_args(t, py_block, py_timeout) ==
    /\ PyCalls(t)
    /\ LET p == _parse_block_and_timeout(py_block, py_timeout, TRUE, 0) IN
       IF p.status = -1
       THEN PyEarly(t, NewCall("get", p.block, 0, 1), "ValueError")
       ELSE try_to_lock(t, NewCall("get", p.block, p.timeout, 1))

Queue_get(t) ==
    /\ PyCalls(t)
    /\ \E py_block \in PyBlock, py_timeout \in PyTimeout :
          Queue_get_args(t, py_block, py_timeout)

Queue_get_nowait(t) ==
    /\ PyCalls(t)
    /\ try_to_lock(t, NewCall("get", FALSE, 0, 1))

\* put_many(items, block, timeout) with the given optional arguments;
\* items_len is what PyObject_Length(items) answers, -1 for an error; what
\* the iterator of items yields is decided in PyIter_Next
Queue_put_many_args(t, py_block, py_timeout, items_len) ==
    /\ PyCalls(t)
    /\ LET p == _parse_block_and_timeout(py_block, py_timeout, TRUE, 0) IN
          /\ items_len > 0 => CanPush(t, items_len)
          /\ IF p.status = -1
             THEN PyEarly(t, NewCall("put_many", p.block, 0,
                                     IF items_len > 0 THEN items_len ELSE 0),
                          "ValueError")
             ELSE IF items_len = -1
             THEN PyEarly(t, NewCall("put_many", p.block, 0, 0), "Error")
             ELSE IF items_len = 0
             THEN PyEarly(t, NewCall("put_many", p.block, 0, 0), "ok")
             ELSE IF items_len < 0
             THEN PyEarly(t, NewCall("put_many", p.block, 0, 0), "ValueError")
             ELSE IF bigger_than_maxsize(items_len)
             THEN PyEarly(t, NewCall("put_many", p.block, 0, items_len),
                          "ValueError")
             ELSE try_to_lock(t, NewCall("put_many", p.block, p.timeout,
                                         items_len))

Queue_put_many(t) ==
    /\ PyCalls(t)
    /\ \E py_block \in PyBlock, py_timeout \in PyTimeout,
          items_len \in -1..(MaxBatch + 1) :
          Queue_put_many_args(t, py_block, py_timeout, items_len)

\* one PyIter_Next of the loop of Queue_put_many: an item, which is pushed,
\* or NULL, at the end of the iterator or with an error set
PyIter_Next(t) ==
    /\ impl = "py"
    /\ pc[t] = "iter"
    /\ gil = {t}
    /\ \/ /\ CanPush(t, 1)
          /\ Apply(t, "iter", [call[t] EXCEPT !.moved = @ + 1],
                   push_back(queue, NextItem), unfinished_tasks + 1, {}, mutex,
                   gil, Append(inserted, NextItem), removed, completed)
       \/ \E err \in {"ok", "Error"} :
             PyReturn(t, call[t], err, queue, unfinished_tasks,
                      notify_all(empty_cond), inserted, removed, completed)

\* the iterator of items is Python code: the interpreter may hand the GIL to
\* another thread while it runs, and gives it back later
PyIter_Next_release_gil(t) ==
    /\ impl = "py"
    /\ pc[t] = "iter"
    /\ gil = {t}
    /\ Apply(t, "iter_nogil", call[t], queue, unfinished_tasks, {}, mutex, {},
             inserted, removed, completed)

PyIter_Next_take_gil(t) ==
    /\ impl = "py"
    /\ pc[t] = "iter_nogil"
    /\ gil = {}
    /\ Apply(t, "iter", call[t], queue, unfinished_tasks, {}, mutex, {t},
             inserted, removed, completed)

\* get_many(items, block, timeout) with the given arguments
Queue_get_many_args(t, py_block, py_timeout, items) ==
    /\ PyCalls(t)
    /\ LET p == _parse_block_and_timeout(py_block, py_timeout, TRUE, 0) IN
          IF p.status = -1
          THEN PyEarly(t, NewCall("get_many", p.block, 0,
                                  IF items > 0 THEN items ELSE 0),
                       "ValueError")
          ELSE IF items = 0
          THEN PyEarly(t, NewCall("get_many", p.block, 0, 0), "ok")
          ELSE IF items < 0
          THEN PyEarly(t, NewCall("get_many", p.block, 0, 0), "ValueError")
          ELSE IF bigger_than_maxsize(items)
          THEN PyEarly(t, NewCall("get_many", p.block, 0, items), "ValueError")
          ELSE try_to_lock(t, NewCall("get_many", p.block, p.timeout, items))

Queue_get_many(t) ==
    /\ PyCalls(t)
    /\ \E py_block \in PyBlock, py_timeout \in PyTimeout,
          items \in -1..(MaxBatch + 1) :
          Queue_get_many_args(t, py_block, py_timeout, items)

Queue_task_done(t) ==
    /\ PyCalls(t)
    /\ try_to_lock(t, NewCall("task_done", TRUE, 0, 0))

Queue_join(t) ==
    /\ PyCalls(t)
    /\ try_to_lock(t, NewCall("join", TRUE, 0, 0))

\* qsize, empty and full read the deque with the GIL and without the mutex
Queue_qsize(t) ==
    /\ PyCalls(t)
    /\ PyEarly(t, [NewCall("qsize", FALSE, 0, 0) EXCEPT !.val = Len(queue)], "ok")

Queue_empty(t) ==
    /\ PyCalls(t)
    /\ PyEarly(t, NewCall("empty", FALSE, 0, 0),
               IF Len(queue) = 0 THEN "True" ELSE "False")

Queue_full(t) ==
    /\ PyCalls(t)
    /\ PyEarly(t, NewCall("full", FALSE, 0, 0),
               IF maxsize = 0 THEN "False"
               ELSE IF Len(queue) < maxsize THEN "False" ELSE "True")

\* lock.lock() of _wait_for_lock succeeds; the GIL is still to be taken back
_wait_for_lock(t) ==
    /\ impl = "py"
    /\ pc[t] = "wait_lock"
    /\ mutex = {}
    /\ Apply(t, "lock_gil", call[t], queue, unfinished_tasks, {}, {t}, gil,
             inserted, removed, completed)

\* a woken cond.wait / cond.timed_wait takes the mutex again
condition_variable_relock(t) ==
    /\ impl = "py"
    /\ pc[t] = "relock"
    /\ mutex = {}
    /\ Apply(t, "wake_gil", call[t], queue, unfinished_tasks, {}, {t}, gil,
             inserted, removed, completed)

\* ~AllowThreads takes the GIL back, and the call goes on under the mutex
AllowThreads_end(t) ==
    /\ impl = "py"
    /\ pc[t] \in {"lock_gil", "wake_gil"}
    /\ gil = {}
    /\ Queue_locked(t, call[t])

\* ---- the environment of the calls

\* a wait ends with no notification and before its deadline
SpuriousWakeup(t) ==
    /\ pc[t] = "cwait"
    /\ Apply(t, "relock", call[t], queue, unfinished_tasks, {t}, mutex, gil,
             inserted, removed, completed)

\* timed_wait reaches its deadline: it will answer false
TimedOut(t) ==
    /\ pc[t] = "cwait"
    /\ call[t].abs_timeout = <<0>>
    /\ Apply(t, "relock", [call[t] EXCEPT !.timedout = TRUE], queue,
             unfinished_tasks, {t}, mutex, gil, inserted, removed, completed)

\* one millisecond passes: a deadline ahead comes nearer, and what a
\* deadline reached fell short of the timeout asked for has passed too
Tick ==
    /\ \E t \in AllThreads :
          call[t].abs_timeout \notin {<<>>, <<0>>} \/ call[t].cut > 0
    /\ call' = [t \in AllThreads |->
                  IF call[t].abs_timeout \notin {<<>>, <<0>>}
                  THEN [call[t] EXCEPT !.abs_timeout = <<@[1] - 1>>]
                  ELSE [call[t] EXCEPT !.cut = 0]]
    /\ UNCHANGED <<impl, maxsize, queue, unfinished_tasks, mutex, gil,
                   empty_cond, full_cond, all_tasks_done_cond, pc, inserted,
                   removed, completed>>

\* the caller has its answer; in the binding the interpreter may now run
\* another thread
Return(t) ==
    /\ pc[t] = "ret"
    /\ Apply(t, "idle", NoCall, queue, unfinished_tasks, {}, mutex, gil \ {t},
             inserted, removed, completed)

Init ==
    /\ impl \in {"cq", "py"}
    /\ \E arg \in -1..MaxCap :
          maxsize = IF impl = "cq" THEN ConcurrentQueue(arg) ELSE Queue_init(arg)
    /\ queue = <<>>
    /\ unfinished_tasks = 0
    /\ mutex = {}
    /\ gil = {}
    /\ empty_cond = {}
    /\ full_cond = {}
    /\ all_tasks_done_cond = {}
    /\ pc = [t \in AllThreads |-> "idle"]
    /\ call = [t \in AllThreads |-> NoCall]
    /\ inserted = <<>>
    /\ removed = <<>>
    /\ completed = 0

Next ==
    \/ \E t \in Threads :
          \/ ConcurrentQueue_put(t)
          \/ ConcurrentQueue_pop(t)
          \/ ConcurrentQueue_task_done(t)
          \/ ConcurrentQueue_join(t)
          \/ ConcurrentQueue_size(t)
          \/ ConcurrentQueue_lock(t)
          \/ ConcurrentQueue_notify(t)
          \/ Queue_put(t)
          \/ Queue_put_nowait(t)
          \/ Queue_get(t)
          \/ Queue_get_nowait(t)
          \/ Queue_put_many(t)
          \/ PyIter_Next(t)
          \/ PyIter_Next_release_gil(t)
          \/ PyIter_Next_take_gil(t)
          \/ Queue_get_many(t)
          \/ Queue_task_done(t)
          \/ Queue_join(t)
          \/ Queue_qsize(t)
          \/ Queue_empty(t)
          \/ Queue_full(t)
          \/ _wait_for_lock(t)
          \/ condition_variable_relock(t)
          \/ AllowThreads_end(t)
          \/ SpuriousWakeup(t)
          \/ TimedOut(t)
          \/ Return(t)
    \/ Tick

Spec == Init /\ [][Next]_vars

\* ---- steps of a call, for the properties below

\* thread t returns from a call of op in this step
Returns(t, op) == pc[t] # "ret" /\ pc'[t] = "ret" /\ call'[t].op = op

\* thread t, with the mutex, makes the first test of a call of op in this
\* step: the call is past its argument checks and was not waiting before
FirstTest(t, op) ==
    /\ pc[t] \in {"idle", "wait_lock", "lock_gil"}
    /\ pc'[t] \in {"ret", "notify", "cwait", "iter"}
    /\ call'[t].op = op
    /\ call'[t].res # "ValueError"
    /\ call'[t].nb # 0

Batch == {"put_many", "get_many"}

\* ---- C1
\* C1: a queue built with capacity maxsize > 0 never holds more than maxsize
\* elements.
C1_CapacityBound == maxsize > 0 => Len(queue) <= maxsize

\* ---- C2
\* C2: the elements removed so far, in removal order, followed by the queue
\* are the elements inserted so far, in insertion order: nothing is lost,
\* duplicated or reordered.
C2_Fifo == removed \o queue = inserted

C2_Witness == Len(removed) >= 2 /\ Len(queue) >= 1

\* ---- C3
\* C3: a put_many of nb elements appends exactly nb elements or none, and no
\* other thread observes the queue (qsize, empty, full) while only a part of
\* the batch is in it.
C3_PutManyAtomic ==
    \A t \in Threads :
       call[t].op = "put_many" =>
          /\ pc[t] = "ret" =>
                call[t].moved = IF call[t].res = "ok" THEN call[t].nb ELSE 0
          /\ pc[t] \in {"iter", "iter_nogil"} /\ call[t].moved > 0 =>
                ~ \E u \in Threads \ {t} :
                     pc[u] = "ret" /\ call[u].op \in {"qsize", "empty", "full"}

\* ---- C4
\* C4: a put_many or get_many that returns a failure has moved no element and
\* has not changed the counter.
C4_FailedBatchUnchanged ==
    \A t \in Threads :
       pc[t] = "ret" /\ call[t].op \in Batch /\ call[t].res # "ok" =>
          call[t].moved = 0

\* ---- C5
\* C5: a successful get_many(count), count > 0, returns in one step exactly
\* the count elements at the head of the queue, in order, and leaves the rest.
C5_GetManyAtomic ==
    [][\A t \in Threads :
          Returns(t, "get_many") /\ call'[t].res = "ok" /\ call'[t].nb > 0 =>
             /\ Len(queue) >= call'[t].nb
             /\ Len(call'[t].got) = call'[t].nb
             /\ call'[t].got = SubSeq(queue, 1, call'[t].nb)
             /\ queue' = SubSeq(queue, call'[t].nb + 1, Len(queue))
             /\ removed' = removed \o call'[t].got]_vars

C5_Witness ==
    \E t \in Threads :
       /\ pc[t] = "ret" /\ call[t].op = "get_many" /\ call[t].res = "ok"
       /\ Len(call[t].got) = 2 /\ queue # <<>>

\* ---- C6
\* C6: the counter of unfinished tasks is the number of elements pushed minus
\* the number of task_done calls that succeeded, and is never negative.
C6_Outstanding ==
    /\ unfinished_tasks = Len(inserted) - completed
    /\ unfinished_tasks >= 0

C6_Witness ==
    /\ completed >= 1 /\ unfinished_tasks >= 1
    /\ \E t \in Threads :
          pc[t] = "ret" /\ call[t].op = "put_many" /\ call[t].moved = 2

\* ---- C7
\* C7: task_done with the counter at 0 fails (NoMoreTasks in ConcurrentQueue,
\* ValueError in the binding), leaves the counter at 0 and the queue as it is,
\* and wakes no thread out of all_tasks_done_cond.
C7_TaskDoneAtZero ==
    [][\A t \in Threads :
          Returns(t, "task_done") /\ unfinished_tasks = 0 =>
             /\ call'[t].res = IF impl = "cq" THEN "NoMoreTasks" ELSE "ValueError"
             /\ unfinished_tasks' = 0
             /\ queue' = queue
             /\ completed' = completed
             /\ all_tasks_done_cond' = all_tasks_done_cond
             /\ \A u \in Threads \ {t} : pc'[u] = pc[u]]_vars

C7_Witness ==
    \E t \in Threads :
       /\ pc[t] = "ret" /\ call[t].op = "task_done"
       /\ call[t].res \in {"NoMoreTasks", "ValueError"}
       /\ completed >= 1 /\ completed = Len(inserted)

\* ---- C8
\* C8: join returns only with the counter at 0, and a join that finds the
\* counter at 0 on its first test returns without waiting.
C8_JoinOnlyAtZero ==
    [][\A t \in Threads :
          /\ Returns(t, "join") => unfinished_tasks = 0 /\ unfinished_tasks' = 0
          /\ (/\ pc[t] \in {"idle", "wait_lock", "lock_gil"}
              /\ pc'[t] \in {"ret", "cwait"}
              /\ call'[t].op = "join"
              /\ unfinished_tasks = 0) => pc'[t] = "ret" /\ ~call'[t].waited]_vars

C8_Witness ==
    \E t \in Threads :
       /\ pc[t] = "ret" /\ call[t].op = "join" /\ call[t].waited
       /\ completed = 3

\* ---- C10
\* C10: a call with block = false never waits in a condition variable; on a
\* queue without the free slots (the elements) it needs it fails with Full
\* (Empty) and changes nothing; with them it does not fail so.
LacksSlots(n) == maxsize > 0 /\ maxsize - Len(queue) < n

LacksItems(n) == Len(queue) < n

C10_Step ==
    \A t \in Threads :
       /\ pc'[t] = "cwait" => call'[t].block
       /\ \A op \in {"put", "put_many"} :
             FirstTest(t, op) /\ ~call'[t].block =>
                IF LacksSlots(call'[t].nb)
                THEN /\ pc'[t] = "ret" /\ call'[t].res = "Full"
                     /\ queue' = queue
                     /\ unfinished_tasks' = unfinished_tasks
                ELSE call'[t].res # "Full"
       /\ \A op \in {"get", "pop", "get_many"} :
             FirstTest(t, op) /\ ~call'[t].block =>
                IF LacksItems(call'[t].nb)
                THEN /\ pc'[t] = "ret" /\ call'[t].res = "Empty"
                     /\ queue' = queue
                     /\ unfinished_tasks' = unfinished_tasks
                ELSE call'[t].res # "Empty"

\* C10: every step of a non-blocking call is as C10_Step says: it never
\* waits, fails with Full (Empty) without a change when it lacks the slots
\* (the elements), and does not fail so otherwise.
C10_NonBlocking == [][C10_Step]_vars

C12_TimeoutZero ==
    [][\A t \in Threads :
          /\ pc[t] = "idle" /\ pc'[t] # "idle" =>
                LET op == call'[t].op
                    lens == IF call'[t].nb = 0 THEN {-1, 0} ELSE {call'[t].nb}
                IN
                /\ op = "put" =>
                      IF Queue_put_args(t, <<FALSE>>, <<>>)
                      THEN \A b \in PyBlock : Queue_put_args(t, b, <<0>>)
                      ELSE \A b \in PyBlock : ~Queue_put_args(t, b, <<0>>)
                /\ op = "get" =>
                      IF Queue_get_args(t, <<FALSE>>, <<>>)
                      THEN \A b \in PyBlock : Queue_get_args(t, b, <<0>>)
                      ELSE \A b \in PyBlock : ~Queue_get_args(t, b, <<0>>)
                /\ op = "put_many" =>
                      \A n \in lens :
                         IF Queue_put_many_args(t, <<FALSE>>, <<>>, n)
                         THEN \A b \in PyBlock :
                                 Queue_put_many_args(t, b, <<0>>, n)
                         ELSE \A b \in PyBlock :
                                 ~Queue_put_many_args(t, b, <<0>>, n)
                /\ op = "get_many" =>
                      \A n \in lens :
                         IF Queue_get_many_args(t, <<FALSE>>, <<>>, n)
                         THEN \A b \in PyBlock :
                                 Queue_get_many_args(t, b, <<0>>, n)
                         ELSE \A b \in PyBlock :
                                 ~Queue_get_many_args(t, b, <<0>>, n)
          /\ pc'[t] = "cwait" => call'[t].block]_vars

\* a get_many that does not block (the step of get_many(2, True, 0)) has
\* failed with Empty on a queue holding one element while the other thread
\* waits for free slots
C12_Witness ==
    /\ impl = "py"
    /\ full_cond # {}
    /\ \E t \in Threads :
          /\ pc[t] = "ret" /\ call[t].op = "get_many" /\ ~call[t].block
          /\ call[t].nb = 2 /\ call[t].res = "Empty" /\ Len(queue) = 1

\* ---- C13
\* C13: in ConcurrentQueue, the first test of a put or pop called with
\* block = true and timeout = 0 does what the call with block = false does:
\* on a full queue put throws QueueFull, on an empty queue pop throws
\* QueueEmpty, and neither waits in a condition variable.
C13_BlockTimeoutZero ==
    [][\A t \in Threads :
          (/\ impl = "cq"
           /\ pc[t] = "wait_lock" /\ pc'[t] # "wait_lock"
           /\ call[t].op \in {"put", "pop"}
           /\ call[t].block /\ call[t].timeout = 0) =>
             /\ pc'[t] # "cwait"
             /\ (call[t].op = "put" /\ maxsize > 0 /\ Len(queue) >= maxsize) =>
                   pc'[t] = "ret" /\ call'[t].res = "Full" /\ queue' = queue
             /\ (call[t].op = "pop" /\ queue = <<>>) =>
                   pc'[t] = "ret" /\ call'[t].res = "Empty"]_vars

\* ---- C14
\* this step is a step of thread t in a put, get, pop, put_many or get_many
\* that was called with block = true and no timeout and is not yet pushing
NoTimeoutStep(t) ==
    IF pc[t] = "idle"
    THEN \E b \in {<<>>, <<TRUE>>} :
            \/ Queue_put_args(t, b, <<>>)
            \/ Queue_get_args(t, b, <<>>)
            \/ Queue_put_many_args(t, b, <<>>, call'[t].nb)
            \/ Queue_get_many_args(t, b, <<>>, call'[t].nb)
    ELSE /\ pc[t] \in {"wait_lock", "lock_gil", "relock", "wake_gil"}
         /\ pc'[t] \notin {pc[t], "lock_gil", "wake_gil"}
         /\ call[t].op \in {"put", "get", "pop", "put_many", "get_many"}
         /\ call[t].block /\ call[t].timeout = 0 /\ call[t].abs_timeout = <<>>

\* in this step thread t stops waiting and goes on to push or pop
Proceeds(t) ==
    /\ pc[t] \notin {"iter", "iter_nogil"}
    /\ pc'[t] = "iter" \/ call'[t].moved > call[t].moved

\* the predicate a call of thread t waits for, before the step
Predicate(t) ==
    IF call'[t].op \in {"put", "put_many"}
    THEN maxsize = 0 \/ maxsize - Len(queue) >= call'[t].nb
    ELSE Len(queue) >= call'[t].nb

C14_Step ==
    \A t \in Threads :
       NoTimeoutStep(t) =>
          /\ call'[t].res \notin {"Full", "Empty"}
          /\ Proceeds(t) => Predicate(t)

\* C14: a put, get, pop, put_many or get_many called with block = true and
\* no timeout never returns Full or Empty, and it goes on to push (pop) only
\* when the queue has the free slots (the elements) it asked for.
C14_BlockingNeverFails == [][C14_Step]_vars

\* ---- C15
\* C15: a call with block = true and timeout > 0 returns Full or Empty only
\* when the timeout it was given has passed since it began to wait; a wait
\* that ends earlier with the predicate false is followed by another wait
\* with the same deadline.
C15_NotPremature ==
    [][\A t \in Threads :
          /\ (/\ pc[t] # "ret" /\ pc'[t] = "ret"
              /\ call'[t].block /\ call'[t].res \in {"Full", "Empty"}) =>
                /\ call[t].timedout
                /\ call[t].abs_timeout = <<0>>
                /\ call[t].cut = 0
          /\ (/\ pc[t] \in {"relock", "wake_gil"} /\ pc'[t] = "cwait"
              /\ call[t].abs_timeout # <<>>) =>
                /\ ~call[t].timedout
                /\ call'[t].abs_timeout = call[t].abs_timeout
                /\ call'[t].cut = call[t].cut]_vars

\* ---- C16
\* C16: a maxsize of 0 or less is stored as 0, and on a queue with maxsize 0
\* no put and no put_many, whatever its block and timeout and whatever the
\* length of the queue, returns Full or waits for free slots.
C16_UnboundedNeverFull ==
    /\ \A arg \in -1..0 : Queue_init(arg) = 0 /\ ConcurrentQueue(arg) = 0
    /\ maxsize = 0 =>
          /\ full_cond = {}
          /\ \A t \in Threads :
                /\ call[t].res # "Full"
                /\ call[t].op \in {"put", "put_many"} =>
                      /\ pc[t] \notin {"cwait", "relock", "wake_gil"}
                      /\ ~call[t].waited

\* the unbounded queue holds three elements, the last two from a put_many
\* that was not to block
C16_Witness ==
    /\ maxsize = 0 /\ Len(queue) = 3
    /\ \E t \in Threads :
          /\ pc[t] = "ret" /\ call[t].op = "put_many" /\ ~call[t].block
          /\ call[t].res = "ok" /\ call[t].moved = 2

\* ---- C17
\* C17: size, qsize, empty and full read the length of the queue only while
\* no other thread holds the mutex.
C17_SizeUnderMutex ==
    [][\A t \in Threads :
          \A op \in {"size", "qsize", "empty", "full"} :
             Returns(t, op) => mutex \ {t} = {}]_vars

\* ---- C18
\* three threads of the binding put one element at a time and get one
\* element or MaxBatch elements, all with block = true and no timeout
InitWait == Init /\ impl = "py"

NextWait ==
    \E t \in AllThreads :
       \/ Queue_put_args(t, <<>>, <<>>)
       \/ Queue_get_args(t, <<>>, <<>>)
       \/ Queue_get_many_args(t, <<>>, <<>>, MaxBatch)
       \/ _wait_for_lock(t)
       \/ condition_variable_relock(t)
       \/ AllowThreads_end(t)
       \/ SpuriousWakeup(t)
       \/ Return(t)

\* fair scheduling: a thread that competes for the mutex or the GIL gets it
\* if it is free again and again, and a call that has its answer returns.
\* No thread has to start a call, and no wait has to end spuriously.
FairnessWait ==
    \A t \in AllThreads :
       /\ SF_vars(_wait_for_lock(t))
       /\ SF_vars(condition_variable_relock(t))
       /\ SF_vars(AllowThreads_end(t))
       /\ WF_vars(Return(t))

SpecWait == InitWait /\ [][NextWait]_vars /\ FairnessWait

\* thread t is blocked in a condition variable, or on its way out of it,
\* while the queue has what its call waits for
Blocked(t) ==
    /\ pc[t] \in {"cwait", "relock", "wake_gil"}
    /\ IF call[t].op \in {"put", "put_many"}
       THEN maxsize - Len(queue) >= call[t].nb
       ELSE IF call[t].op \in {"get", "pop", "get_many"}
       THEN Len(queue) >= call[t].nb
       ELSE FALSE

\* C18: under fair scheduling no thread stays blocked for ever in a put, get,
\* put_many or get_many while the queue keeps having the free slots (the
\* elements) the call waits for.
C18_NoStuckWaiter == \A t \in AllThreads : []<>~Blocked(t)

\* ---- C19
C19_Step ==
    \A t \in Threads :
       Proceeds(t) =>
          /\ mutex \ {t} = {}
          /\ Predicate(t)
          /\ call'[t].op \in {"get", "pop", "get_many"} => queue # <<>>

\* C19: a call goes on to push or to pop, at its first test or after any
\* wakeup, only while no other thread holds the mutex and with its predicate
\* true: get and pop with a non-empty queue, get_many(count) with count
\* elements, put with length < maxsize and put_many(N) with N free slots
\* (maxsize > 0); nothing is popped from an empty queue.
C19_ProceedsWithPredicate == [][C19_Step]_vars

\* ---- C20
\* C20: a call with block = true and a timeout returns Full or Empty only if,
\* at the step in which it gives up with the mutex held, the queue lacks the
\* free slots (the elements) it asked for.
C20_FailsOnlyIfFalse ==
    [][\A t \in Threads :
          (/\ pc[t] # "ret" /\ pc'[t] = "ret"
           /\ call'[t].block /\ call'[t].res \in {"Full", "Empty"}) =>
             ~Predicate(t)]_vars

\* ---- C9
\* the threads only produce, complete and join

NextJoin ==
    \/ \E t \in Threads :
          \/ ConcurrentQueue_put(t)
          \/ ConcurrentQueue_task_done(t)
          \/ ConcurrentQueue_join(t)
          \/ ConcurrentQueue_lock(t)
          \/ ConcurrentQueue_notify(t)
          \/ Queue_put(t)
          \/ Queue_task_done(t)
          \/ Queue_join(t)
          \/ _wait_for_lock(t)
          \/ condition_variable_relock(t)
          \/ AllowThreads_end(t)
          \/ SpuriousWakeup(t)
          \/ TimedOut(t)
          \/ Return(t)
    \/ Tick

\* fair scheduling: a thread that can go on inside a call does; one that
\* competes for the mutex or the GIL gets it if it is free again and again;
\* the clock advances.  No thread has to start a call.
Fairness ==
    /\ \A t \in Threads :
          /\ WF_vars(ConcurrentQueue_lock(t))
          /\ WF_vars(ConcurrentQueue_notify(t))
          /\ SF_vars(_wait_for_lock(t))
          /\ SF_vars(condition_variable_relock(t))
          /\ SF_vars(AllowThreads_end(t))
          /\ WF_vars(TimedOut(t))
          /\ WF_vars(Return(t))
    /\ WF_vars(Tick)

SpecJoin == Init /\ [][NextJoin]_vars /\ Fairness

\* thread t was blocked in join and has been woken with the counter at 0
JoinWoken(t) ==
    call[t].op = "join" /\ pc[t] = "relock" /\ unfinished_tasks = 0

Acquire(t) ==
    \/ ConcurrentQueue_lock(t)
    \/ _wait_for_lock(t)
    \/ condition_variable_relock(t)
    \/ AllowThreads_end(t)

NextTimed ==
    \/ \E t \in Threads :
          \/ ConcurrentQueue_put(t)
          \/ ConcurrentQueue_pop(t)
          \/ ConcurrentQueue_notify(t)
          \/ \E v \in 1..MaxTimeout :
                \/ Queue_put_args(t, <<>>, <<v>>)
                \/ Queue_get_args(t, <<>>, <<v>>)
                \/ \E n \in 1..MaxBatch :
                      \/ Queue_put_many_args(t, <<>>, <<v>>, n)
                      \/ Queue_get_many_args(t, <<>>, <<v>>, n)
          \/ Queue_put_nowait(t)
          \/ Queue_get_nowait(t)
          \/ PyIter_Next(t)
          \/ Acquire(t)
          \/ SpuriousWakeup(t)
          \/ TimedOut(t)
          \/ Return(t)
    \/ Tick

\* fair scheduling and a progressing clock: a thread that competes for the
\* mutex or the GIL gets it if it is free again and again; an iterator comes
\* to its next element; a timed_wait whose deadline is reached answers false
\* (a timed_wait entered after the deadline answers at once); a call that has
\* its answer returns.  No thread has to start a call, and no wait has to end
\* spuriously.
FairnessTimed ==
    /\ \A t \in Threads :
          /\ SF_vars(Acquire(t))
          /\ SF_vars(TimedOut(t))
          /\ WF_vars(ConcurrentQueue_notify(t))
          /\ WF_vars(PyIter_Next(t))
          /\ WF_vars(Return(t))
    /\ WF_vars(Tick)

SpecTimed == Init /\ [][NextTimed]_vars /\ FairnessTimed

\* thread t is inside a call with block = true and a timeout > 0
Timed(t) ==
    /\ pc[t] \notin {"idle", "ret"}
    /\ call[t].op \in {"put", "get", "pop", "put_many", "get_many"}
    /\ call[t].timeout > 0 \/ call[t].abs_timeout # <<>>

Step(t) ==
    \/ call'[t] # call[t]
    \/ pc'[t] # pc[t] /\ ~(pc[t] = "cwait" /\ pc'[t] = "relock")

\* the operation of the call thread t is in, during and after the step
OpOf(t) == IF call'[t].op = "none" THEN call[t].op ELSE call'[t].op

FrameStep ==
    /\ maxsize' = maxsize
    /\ \A t \in Threads :
          Step(t) =>
             /\ OpOf(t) \in {"get", "pop", "get_many"} =>
                    unfinished_tasks' = unfinished_tasks
             /\ OpOf(t) \in {"task_done", "join"} => queue' = queue
             /\ OpOf(t) \in {"size", "qsize", "empty", "full"} =>
                    /\ queue' = queue
                    /\ unfinished_tasks' = unfinished_tasks

\* C22: no step of get, pop or get_many, successful or failed, changes
\* unfinished_tasks; no step of task_done or join changes the deque; no step
\* of size, qsize, empty or full changes either; and maxsize never changes
\* after construction.
C22_Frame == [][FrameStep]_vars

\* a get has taken an item that is still counted as unfinished
C22_Witness ==
    \E t \in Threads :
       /\ pc[t] = "ret" /\ call[t].op \in {"get", "pop", "get_many"}
       /\ call[t].res = "ok" /\ call[t].moved > 0
       /\ unfinished_tasks = Len(inserted) /\ unfinished_tasks > Len(queue)

\* ---- C23

\* thread t owns the mutex through the step: it owned it before, or the step
\* begins by taking the free mutex (the scoped_lock of a call that starts, or
\* the re-lock of ConcurrentQueue's condition wait); no other thread owns it
\* before or after
OwnsMutex(t) ==
    /\ mutex \subseteq {t}
    /\ mutex' \subseteq {t}
    /\ mutex = {} => \/ pc[t] = "idle"
                     \/ impl = "cq" /\ pc[t] \in {"wait_lock", "relock"}

MutexStep ==
    /\ Cardinality(mutex) <= 1
    /\ Cardinality(mutex') <= 1
    /\ \A t \in Threads :
          Step(t) /\ (queue' # queue \/ unfinished_tasks' # unfinished_tasks)
             => OwnsMutex(t)
    /\ \A t \in Threads :
          pc[t] \in {"cwait", "relock"} /\ pc'[t] \notin {"cwait", "relock"}
             => mutex = {} /\ mutex' \subseteq {t}

\* C23: at most one thread owns the mutex; every step that changes the
\* deque or unfinished_tasks is the step of a thread that owns the mutex
\* through it; and a thread leaves a condition wait only by taking the free
\* mutex.
C23_MutualExclusion == [][MutexStep]_vars

\* a put_many that waited on full_cond pushes with the mutex while another
\* thread is blocked on the mutex
C23_Witness ==
    \E t \in Threads, u \in Threads :
       /\ pc[t] = "iter" /\ call[t].waited /\ call[t].moved > 0
       /\ mutex = {t}
       /\ pc[u] = "wait_lock"

\* ---- C24

\* thread t is in the iterator of the caller's items: PyObject_GetIter and
\* PyIter_Next run the Python code of the collection, with the GIL or after
\* the interpreter has handed the GIL to another thread
InCallback(t) == pc[t] \in {"iter", "iter_nogil"}

\* C24: no thread runs the iterator of the caller's items, or any other
\* Python code, while it owns the queue mutex (so the GIL is not handed to
\* another thread inside a critical section).
C24_NoCallbackUnderMutex == \A t \in Threads : InCallback(t) => t \notin mutex

\* ---- C25

\* the iterator of put_many is Python code and may call a method of the
\* same queue: try_to_lock finds the mutex busy (its own put_many owns it),
\* _wait_for_lock releases the GIL and calls lock.lock() on a boost::mutex
\* the thread owns. The thread blocks there for ever; a build whose mutex
\* reports the error instead makes the inner call raise, which is the
\* "Error" end of PyIter_Next.
PyIter_Next_reenter(t) ==
    /\ impl = "py"
    /\ pc[t] = "iter"
    /\ gil = {t}
    /\ Apply(t, "self_lock", call[t], queue, unfinished_tasks, {}, mutex, {},
             inserted, removed, completed)

\* the GIL comes to a thread that waits for it
TakeGil(t) == AllowThreads_end(t) \/ PyIter_Next_take_gil(t)

\* the threads of the binding call every method, and the iterator of
\* put_many may hand the GIL over or call the queue
NextGil ==
    \/ \E t \in Threads :
          \/ Queue_put(t)
          \/ Queue_put_nowait(t)
          \/ Queue_get(t)
          \/ Queue_get_nowait(t)
          \/ Queue_put_many(t)
          \/ PyIter_Next(t)
          \/ PyIter_Next_release_gil(t)
          \/ PyIter_Next_reenter(t)
          \/ Queue_get_many(t)
          \/ Queue_task_done(t)
          \/ Queue_join(t)
          \/ _wait_for_lock(t)
          \/ condition_variable_relock(t)
          \/ TakeGil(t)
          \/ SpuriousWakeup(t)
          \/ TimedOut(t)
          \/ Return(t)
    \/ Tick

\* the GIL is fair to the threads that wait for it, and a call that has its
\* answer returns and lets the interpreter run another thread
FairnessGil ==
    \A t \in Threads :
       /\ SF_vars(TakeGil(t))
       /\ WF_vars(Return(t))

SpecGil == InitWait /\ [][NextGil]_vars /\ FairnessGil

BlockedOnMutex(t) ==
    \/ pc[t] = "self_lock"
    \/ pc[t] \in {"wait_lock", "relock"} /\ mutex # {}

BlockedOnGil(t) ==
    pc[t] \in {"lock_gil", "wake_gil", "iter_nogil"} /\ gil \ {t} # {}

\* no thread is blocked on the mutex or in a condition variable with the GIL
NoBlockWithGil ==
    \A t \in Threads :
       pc[t] \in {"wait_lock", "relock", "cwait", "self_lock"} => t \notin gil

AllBlocked == \A t \in Threads : BlockedOnMutex(t) \/ BlockedOnGil(t)

\* C25: in the binding no thread blocks on the mutex or in a condition
\* variable while it holds the GIL, the threads are never all blocked on the
\* GIL or the mutex, and under a fair GIL a thread that owns the mutex and
\* waits for the GIL gets it.
C25_NoGilMutexDeadlock ==
    /\ [](NoBlockWithGil /\ ~AllBlocked)
    /\ \A t \in Threads :
          (t \in mutex /\ pc[t] \in {"lock_gil", "wake_gil", "iter_nogil"})
             ~> pc[t] \notin {"lock_gil", "wake_gil", "iter_nogil"}
====
